---- MODULE Spec2Model ----
(***************************************************************************)
(* Model of the Shopify draft-order App Proxy (src/unnamed/part_000 lines  *)
(* 1-244, the CommonJS server with both routes; src/server.js holds the    *)
(* same verifyProxy, gidToLegacyId, mapDraftOrderNode and GET /devis, and  *)
(* adminGraphQL without the test of its three settings).                   *)
(*                                                                         *)
(* A JavaScript string is a sequence of one-character tokens.  An HMAC     *)
(* digest, once encoded, is one opaque token naming the encoding, the key  *)
(* and the message (an ideal, collision-free MAC).  The value `undefined`  *)
(* is the one-token sequence Undefined, which no string equals since no    *)
(* character token is longer than one character.                           *)
(***************************************************************************)
EXTENDS Integers, Sequences, FiniteSets, TLC

VARIABLES
  secret,     \* process.env.APP_PROXY_SHARED_SECRET
  adminEnv,   \* SHOP_DOMAIN, ADMIN_API_VERSION and ADMIN_ACCESS_TOKEN are all set
  req,        \* req[r]: the inbound request r, as express hands it to the route
  pc,         \* pc[r]: position of the handler of request r
  verified,   \* verified[r]: what verifyProxy(req) returned for request r
  calls,      \* calls[r]: the upstream calls (fetch) issued for request r
  reply,      \* reply[r]: what the awaited fetch produced
  resp,       \* resp[r]: the HTTP response written for request r
  nresp       \* nresp[r]: how many responses were written for request r

vars == <<secret, adminEnv, req, pc, verified, calls, reply, resp, nresp>>

----------------------------------------------------------------------------
(* Strings *)

Undefined == <<"undefined">>
Null == <<"null">>

\* JavaScript truthiness of a value that is a string, undefined or null
Truthy(v) == v # Undefined /\ v # Null /\ v # <<>>

\* a || b
OrElse(a, b) == IF Truthy(a) THEN a ELSE b

\* The characters of the query parameter names, in UTF-16 code unit order.
CharOrder ==
  <<" ", "\"", "%", "&", "/", "0", "1", "2", "3", "4", "5", "6", "7", "8", "9",
    ":", "=", "?", "A", "C", "D", "E", "F", "H", "I", "M", "P", "S", "T",
    "[", "]", "_", "a", "b", "c", "d", "e", "f", "g", "h", "i", "l", "m",
    "n", "o", "p", "r", "s", "t", "u", "v", "x", "y", "z", "{", "}">>

CharCode(c) == CHOOSE i \in 1..Len(CharOrder) : CharOrder[i] = c

\* a < b on strings: the comparison Array.prototype.sort() uses by default
RECURSIVE StrLess(_, _)
StrLess(a, b) ==
  IF b = <<>> THEN FALSE
  ELSE IF a = <<>> THEN TRUE
  ELSE IF Head(a) = Head(b) THEN StrLess(Tail(a), Tail(b))
  ELSE CharCode(Head(a)) < CharCode(Head(b))

StartsWith(s, p) == Len(s) >= Len(p) /\ SubSeq(s, 1, Len(p)) = p

\* String.prototype.includes
Includes(s, p) ==
  \E i \in 0..(Len(s) - Len(p)) : SubSeq(s, i + 1, i + Len(p)) = p

IsDigit(c) == c \in {"0", "1", "2", "3", "4", "5", "6", "7", "8", "9"}

\* /^\d+$/.test(s)
AllDigits(s) == Len(s) >= 1 /\ \A i \in 1..Len(s) : IsDigit(s[i])

\* s.split("/").pop(): what follows the last "/", or all of s
RECURSIVE LastSegment(_)
LastSegment(s) ==
  IF \E i \in 1..Len(s) : s[i] = "/"
  THEN LastSegment(Tail(s))
  ELSE s

\* String.prototype.toLowerCase, on the letters the model uses
LowerChar(c) ==
  CASE c = "I" -> "i" [] c = "T" -> "t" [] c = "E" -> "e" [] c = "M" -> "m"
    [] c = "S" -> "s" [] OTHER -> c

ToLowerCase(s) == [i \in 1..Len(s) |-> LowerChar(s[i])]

DigitChars == <<"0", "1", "2", "3", "4", "5", "6", "7", "8", "9">>

\* `${n}` of a non-negative integer
RECURSIVE NumToStr(_)
NumToStr(n) ==
  IF n < 10 THEN <<DigitChars[n + 1]>>
  ELSE NumToStr(n \div 10) \o <<DigitChars[(n % 10) + 1]>>

RECURSIVE Concat(_)
Concat(ss) == IF ss = <<>> THEN <<>> ELSE Head(ss) \o Concat(Tail(ss))

\* Array.prototype.join
RECURSIVE Join(_, _)
Join(ss, sep) ==
  IF ss = <<>> THEN <<>>
  ELSE IF Len(ss) = 1 THEN ss[1]
  ELSE ss[1] \o sep \o Join(Tail(ss), sep)

----------------------------------------------------------------------------
(* Signature verification *)

\* crypto.timingSafeEqual on the two UTF-8 buffers; it throws when the
\* lengths differ, and the catch turns that into false.
safeEqual(a, b) ==
  IF Len(a) # Len(b) THEN FALSE
  ELSE \A i \in 1..Len(a) : a[i] = b[i]

hmacBase64(key, raw) == << "base64:" \o ToString(<<key, raw>>) >>

hmacHex(key, raw) == << "hex:" \o ToString(<<key, raw>>) >>

\* req.query[k]; params is the query string as a sequence of <<key, value>>
QueryGet(params, k) ==
  IF \E i \in 1..Len(params) : params[i][1] = k
  THEN params[CHOOSE i \in 1..Len(params) : params[i][1] = k][2]
  ELSE Undefined

SIGNATURE == <<"s", "i", "g", "n", "a", "t", "u", "r", "e">>

\* const { signature: legacySig, ...rest } = req.query
RestOf(params) == SelectSeq(params, LAMBDA p : p[1] # SIGNATURE)

PairText(p) == p[1] \o <<"=">> \o p[2]

\* Mutant: the keys are taken in the order of the query string, unsorted.
SortedConcatUnsorted(rest) == Concat([i \in 1..Len(rest) |-> PairText(rest[i])])

\* Object.keys(rest).sort().map(k => `${k}=${rest[k]}`).join("")
SortedConcat(rest) ==
  LET sorted == SortSeq(rest, LAMBDA p, q : StrLess(p[1], q[1]))
  IN  Concat([i \in 1..Len(sorted) |-> PairText(sorted[i])])

APPS == <<"/", "a", "p", "p", "s">>

\* `/apps${raw1.startsWith("/") ? "" : "/"}${raw1}`
AppsPrefixed(raw1) ==
  APPS \o (IF StartsWith(raw1, <<"/">>) THEN <<>> ELSE <<"/">>) \o raw1

\* Mutant: the two headers are read in the other order.
HeaderSigSwapped(h1, h2) == OrElse(h2, h1)

\* headers["x-shopify-proxy-signature"] || headers["x-shopify-hmac-sha256"]
HeaderSig(h1, h2) == OrElse(h1, h2)

\* Mutant: verifyProxy without its `if (!secret) return false`.
verifyProxyOpen(envSecret, h1, h2, originalUrl, params) ==
  LET sec       == OrElse(envSecret, <<>>)
      headerSig == HeaderSig(h1, h2)
      legacySig == QueryGet(params, SIGNATURE)
  IN  \/ Truthy(headerSig) /\ safeEqual(headerSig, hmacBase64(sec, originalUrl))
      \/ Truthy(headerSig) /\ safeEqual(headerSig, hmacBase64(sec, AppsPrefixed(originalUrl)))
      \/ Truthy(legacySig) /\ safeEqual(legacySig, hmacHex(sec, SortedConcat(RestOf(params))))

\* verifyProxy(req), with the request given by its proxy-signature header h1,
\* its hmac-sha256 header h2, its originalUrl and its query parameters
verifyProxy(envSecret, h1, h2, originalUrl, params) ==
  LET sec       == OrElse(envSecret, <<>>)
      headerSig == HeaderSig(h1, h2)
      legacySig == QueryGet(params, SIGNATURE)
      rest      == RestOf(params)
      raw2      == AppsPrefixed(originalUrl)
  IN  IF ~Truthy(sec) THEN FALSE
      ELSE IF Truthy(headerSig) /\ safeEqual(headerSig, hmacBase64(sec, originalUrl))
        THEN TRUE
      ELSE IF Truthy(headerSig) /\ safeEqual(headerSig, hmacBase64(sec, raw2))
        THEN TRUE
      ELSE IF Truthy(legacySig) /\ safeEqual(legacySig, hmacHex(sec, SortedConcat(rest)))
        THEN TRUE
      ELSE FALSE

----------------------------------------------------------------------------
(* Identifiers *)

GIDSCHEME == <<"g", "i", "d", ":", "/", "/">>

\* Mutant: the trailing numeral is taken whatever the identifier starts with.
gidToLegacyIdAnyScheme(gid) ==
  IF ~Truthy(gid) THEN Undefined
  ELSE IF AllDigits(LastSegment(gid)) THEN LastSegment(gid)
  ELSE Undefined

\* gidToLegacyId(gid): the numeric id, or Undefined for null
gidToLegacyId(gid) ==
  IF ~Truthy(gid) THEN Undefined
  ELSE IF StartsWith(gid, GIDSCHEME) /\ AllDigits(LastSegment(gid))
    THEN LastSegment(gid)
  ELSE IF AllDigits(gid) THEN gid
  ELSE Undefined

----------------------------------------------------------------------------
(* JSON values: records tagged by t *)

JUndef == [t |-> "undefined"]
JNull == [t |-> "null"]
JStr(s) == [t |-> "str", v |-> s]
JNum(n) == [t |-> "num", v |-> n]
JArr(items) == [t |-> "arr", items |-> items]

\* JavaScript truthiness of a JSON value
JTruthy(v) ==
  CASE v.t \in {"undefined", "null"} -> FALSE
    [] v.t = "str" -> v.v # ""
    [] v.t = "num" -> v.v # 0
    [] OTHER -> TRUE

\* obj?.f : undefined when obj is null or undefined or has no field f
Field(obj, f) ==
  IF obj.t \in {"undefined", "null"} \/ f \notin DOMAIN obj THEN JUndef ELSE obj[f]

\* `${v}` inside a template literal
Template(v) ==
  CASE v.t = "str" -> v.v
    [] v.t = "null" -> "null"
    [] v.t = "undefined" -> "undefined"
    [] OTHER -> ToString(v)

\* the line-item mapping of mapDraftOrderNode
mapLineItem(edge) ==
  LET li == Field(edge, "node")
  IN  [t |-> "obj",
       title |-> Field(li, "title"),
       quantity |-> Field(li, "quantity"),
       variantTitle |-> IF JTruthy(Field(li, "variantTitle"))
                        THEN Field(li, "variantTitle") ELSE JStr("")]

\* node.lineItems.edges || []
EdgesOrEmpty(v) == IF JTruthy(v) THEN v.items ELSE <<>>

\* the fields mapDraftOrderNode always produces
mapCommon(node) ==
  LET money == Field(Field(node, "totalPriceSet"), "presentmentMoney")
  IN  [t |-> "obj",
       id |-> Field(node, "id"),
       legacyResourceId |-> Field(node, "legacyResourceId"),
       name |-> Field(node, "name"),
       createdAt |-> Field(node, "createdAt"),
       status |-> Field(node, "status"),
       invoiceUrl |-> Field(node, "invoiceUrl"),
       total |-> IF JTruthy(money)
                 THEN JStr(Template(Field(money, "amount")) \o " "
                           \o Template(Field(money, "currencyCode")))
                 ELSE JNull]

IsNullish(v) == v.t \in {"undefined", "null"}

\* mapDraftOrderNode(node, includeItems) throws a TypeError: it reads a
\* property of a node, or of a line-item edge or node, that is null or
\* undefined
mapThrows(node, includeItems) ==
  \/ IsNullish(node)
  \/ /\ includeItems
     /\ JTruthy(Field(node, "lineItems"))
     /\ LET edges == EdgesOrEmpty(Field(Field(node, "lineItems"), "edges"))
        IN  \E i \in 1..Len(edges) :
              IsNullish(edges[i]) \/ IsNullish(Field(edges[i], "node"))

\* mapDraftOrderNode(node, includeItems), when it does not throw
mapDraftOrderNode(node, includeItems) ==
  IF includeItems /\ JTruthy(Field(node, "lineItems"))
  THEN LET edges == EdgesOrEmpty(Field(Field(node, "lineItems"), "edges"))
       IN  [f \in DOMAIN mapCommon(node) \cup {"lineItems"} |->
              IF f = "lineItems"
              THEN JArr([i \in 1..Len(edges) |-> mapLineItem(edges[i])])
              ELSE mapCommon(node)[f]]
  ELSE mapCommon(node)

----------------------------------------------------------------------------
(* The upstream call *)

\* "[AdminAPI] HTTP "
MSG_HTTP ==
  <<"[", "A", "d", "m", "i", "n", "A", "P", "I", "]", " ", "H", "T", "T", "P", " ">>

\* "[AdminAPI] GraphQL errors: "
MSG_GRAPHQL ==
  <<"[", "A", "d", "m", "i", "n", "A", "P", "I", "]", " ", "G", "r", "a", "p",
    "h", "Q", "L", " ", "e", "r", "r", "o", "r", "s", ":", " ">>

\* "Missing env: SHOP_DOMAIN, ADMIN_API_VERSION, or ADMIN_ACCESS_TOKEN"
MSG_ENV ==
  <<"M", "i", "s", "s", "i", "n", "g", " ", "e", "n", "v", ":", " ",
    "S", "H", "O", "P", "_", "D", "O", "M", "A", "I", "N", ",", " ",
    "A", "D", "M", "I", "N", "_", "A", "P", "I", "_", "V", "E", "R", "S", "I", "O", "N",
    ",", " ", "o", "r", " ",
    "A", "D", "M", "I", "N", "_", "A", "C", "C", "E", "S", "S", "_", "T", "O", "K", "E", "N">>

\* the message of the error a rejected fetch carries
MSG_FETCH == <<"f", "e", "t", "c", "h", " ", "f", "a", "i", "l", "e", "d">>

\* the message of the TypeError a property read of null or undefined throws
MSG_TYPE ==
  <<"C", "a", "n", "n", "o", "t", " ", "r", "e", "a", "d", " ",
    "p", "r", "o", "p", "e", "r", "t", "i", "e", "s">>

\* the message of the SyntaxError resp.json() rejects with
MSG_JSON ==
  <<"U", "n", "e", "x", "p", "e", "c", "t", "e", "d", " ", "t", "o", "k", "e", "n">>

\* JSON.stringify of an errors value: an array of {message} objects
StringifyErrors(errors) ==
  IF errors.t = "arr"
  THEN <<"[">>
       \o Join([i \in 1..Len(errors.items) |->
                  <<"{", "\"", "m", "e", "s", "s", "a", "g", "e", "\"", ":", "\"">>
                  \o errors.items[i] \o <<"\"", "}">>], <<",">>)
       \o <<"]">>
  ELSE <<ToString(errors)>>

\* resp.ok: the status is in 200..299
RespOk(rep) == rep.status >= 200 /\ rep.status <= 299

\* resp.text().catch(() => ""): the raw body
RespText(rep) ==
  IF rep.body.t = "text" THEN rep.body.chars
  ELSE <<"{", "\"", "e", "r", "r", "o", "r", "s", "\"", ":">>
       \o StringifyErrors(Field(rep.body, "errors")) \o <<"}">>

Threw(message) == [threw |-> TRUE, message |-> message, data |-> JUndef]
Returned(data) == [threw |-> FALSE, message |-> <<>>, data |-> data]

\* what `await adminGraphQL(query, variables)` produces once fetch has
\* settled with rep: the data returned, or the Error thrown
adminGraphQL(rep) ==
  IF rep.kind = "reject" THEN Threw(MSG_FETCH)
  ELSE IF ~RespOk(rep) THEN Threw(MSG_HTTP \o NumToStr(rep.status) \o <<":", " ">> \o RespText(rep))
  ELSE IF rep.body.t = "text" THEN Threw(MSG_JSON)
  ELSE IF JTruthy(Field(rep.body, "errors"))
    THEN Threw(MSG_GRAPHQL \o StringifyErrors(Field(rep.body, "errors")))
  ELSE Returned(Field(rep.body, "data"))

----------------------------------------------------------------------------
(* Requests *)

CUSTOMER_ID == <<"c", "u", "s", "t", "o", "m", "e", "r", "_", "i", "d">>
AFTER == <<"a", "f", "t", "e", "r">>
INCLUDE == <<"i", "n", "c", "l", "u", "d", "e">>
ITEMS == <<"i", "t", "e", "m", "s">>

\* encodeURIComponent of a path segment, as the client sends req.params.id
RECURSIVE EncodeURIComponent(_)
EncodeURIComponent(s) ==
  IF s = <<>> THEN <<>>
  ELSE (CASE Head(s) = "/" -> <<"%", "2", "F">>
          [] Head(s) = ":" -> <<"%", "3", "A">>
          [] OTHER -> <<Head(s)>>) \o EncodeURIComponent(Tail(s))

\* req.originalUrl: the request target as received, query string included.
\* rq.form is the text in front of the path: empty for an origin-form
\* target, scheme and host for an absolute-form one.
OriginalUrl(rq) ==
  rq.form
  \o <<"/", "d", "e", "v", "i", "s">>
  \o (IF rq.route = "detail" THEN <<"/">> \o EncodeURIComponent(rq.id) ELSE <<>>)
  \o (IF rq.params = <<>> THEN <<>>
      ELSE <<"?">> \o Join([i \in 1..Len(rq.params) |-> PairText(rq.params[i])], <<"&">>))

\* verifyProxy(req)
verifyProxyReq(envSecret, rq) ==
  verifyProxy(envSecret, rq.h1, rq.h2, OriginalUrl(rq), rq.params)

\* String(req.query.include || "").toLowerCase() === "items"
IncludeItems(rq) == ToLowerCase(OrElse(QueryGet(rq.params, INCLUDE), <<>>)) = ITEMS

----------------------------------------------------------------------------
(* Responses *)

NoResponse == [status |-> 0, body |-> JUndef, noCache |-> FALSE]

\* res.status(status).json({ error: code })
ErrorResponse(status, code) ==
  [status |-> status, body |-> [t |-> "obj", error |-> JStr(code)], noCache |-> FALSE]

\* the two no-cache headers, then res.json(body)
OkResponse(body) == [status |-> 200, body |-> body, noCache |-> TRUE]

InvalidSignature == ErrorResponse(401, "invalid_signature")
MissingCustomerId == ErrorResponse(400, "missing customer_id")
BadCustomerId == ErrorResponse(400, "bad customer_id")
NotFound == ErrorResponse(404, "not_found")
ServerError == ErrorResponse(500, "server_error")

HTTP_404 == <<"H", "T", "T", "P", " ", "4", "0", "4">>

\* the catch block of GET /devis
DevisCatch(e) == ServerError

\* the catch block of GET /devis/:id
DevisIdCatch(e) == IF Includes(e.message, HTTP_404) THEN NotFound ELSE ServerError

First == 10

\* the query and variables GET /devis sends
DevisCall(rq) ==
  [op |-> "ListDraftOrders",
   lineItems |-> IncludeItems(rq),
   variables |->
     [first |-> First,
      after |-> OrElse(QueryGet(rq.params, AFTER), Null),
      q |-> CUSTOMER_ID \o <<":">> \o gidToLegacyId(QueryGet(rq.params, CUSTOMER_ID))]]

\* "gid://shopify/DraftOrder/"
GID_DRAFT_ORDER ==
  GIDSCHEME \o <<"s", "h", "o", "p", "i", "f", "y", "/",
                 "D", "r", "a", "f", "t", "O", "r", "d", "e", "r", "/">>

\* the handle GET /devis/:id queries for
DevisIdGid(rawId) ==
  IF Truthy(gidToLegacyId(rawId)) /\ ~StartsWith(rawId, GIDSCHEME)
  THEN GID_DRAFT_ORDER \o gidToLegacyId(rawId)
  ELSE rawId

\* the query and variables GET /devis/:id sends
DevisIdCall(rq) ==
  [op |-> "OneDraftOrder",
   lineItems |-> IncludeItems(rq),
   variables |-> [id |-> DevisIdGid(rq.id)]]

\* GET /devis after the await: the response for what adminGraphQL produced
DevisAfter(includeItems, result) ==
  IF result.threw THEN DevisCatch(result)
  ELSE LET draftOrders == Field(result.data, "draftOrders")
           edges == EdgesOrEmpty(Field(draftOrders, "edges"))
           pageInfo == IF JTruthy(Field(draftOrders, "pageInfo"))
                       THEN Field(draftOrders, "pageInfo") ELSE [t |-> "obj"]
       IN  IF \E i \in 1..Len(edges) :
                 IsNullish(edges[i]) \/ mapThrows(Field(edges[i], "node"), includeItems)
           THEN DevisCatch(Threw(MSG_TYPE))
           ELSE
           OkResponse([t |-> "obj",
                       quotes |-> JArr([i \in 1..Len(edges) |->
                                   mapDraftOrderNode(Field(edges[i], "node"), includeItems)]),
                       pageInfo |-> pageInfo])

\* GET /devis/:id after the await
DevisIdAfter(includeItems, result) ==
  IF result.threw THEN DevisIdCatch(result)
  ELSE LET n == Field(result.data, "draftOrder")
       IN  IF ~JTruthy(n) THEN NotFound
           ELSE IF mapThrows(n, includeItems) THEN DevisIdCatch(Threw(MSG_TYPE))
           ELSE OkResponse([t |-> "obj", quote |-> mapDraftOrderNode(n, includeItems)])

\* adminGraphQL before its fetch: the three settings must be there
AdminEnvMissing(env) == ~env

\* Mutant: an absent customer_id is not checked for.
CustomerIdCheckNoMissing(customerParam) ==
  IF Truthy(customerParam) /\ ~Truthy(gidToLegacyId(customerParam)) THEN "bad" ELSE "ok"

\* the validation of req.query.customer_id in GET /devis
CustomerIdCheck(customerParam) ==
  IF ~Truthy(customerParam) THEN "missing"
  ELSE IF ~Truthy(gidToLegacyId(customerParam)) THEN "bad"
  ELSE "ok"

----------------------------------------------------------------------------
(* Handlers *)

NoRequest == [route |-> "none", form |-> <<>>, id |-> <<>>, params |-> <<>>,
              h1 |-> Undefined, h2 |-> Undefined]
NoReply == [kind |-> "none", status |-> 0, body |-> JUndef]

Respond(r, response) ==
  /\ resp' = [resp EXCEPT ![r] = response]
  /\ nresp' = [nresp EXCEPT ![r] = @ + 1]
  /\ pc' = [pc EXCEPT ![r] = "done"]

\* fetch(url, ...): the call leaves, the handler is suspended on it
Fetch(r, call) ==
  /\ calls' = [calls EXCEPT ![r] = Append(@, call)]
  /\ pc' = [pc EXCEPT ![r] = "awaiting"]
  /\ UNCHANGED <<resp, nresp>>

\* express hands request rq to its route
Arrive(r, rq) ==
  /\ pc[r] = "idle"
  /\ req' = [req EXCEPT ![r] = rq]
  /\ pc' = [pc EXCEPT ![r] = "received"]
  /\ UNCHANGED <<secret, adminEnv, verified, calls, reply, resp, nresp>>

\* Mutant: includeItems is one variable of the module, which the request
\* that entered its handler last has set.
includeItemsShared(r) ==
  IncludeItems(req[CHOOSE q \in DOMAIN pc :
                     /\ pc[q] \in {"awaiting", "done"}
                     /\ \A o \in DOMAIN pc : pc[o] \in {"awaiting", "done"} => o <= q])

\* the handler's own includeItems, computed before the await and read after it
includeItemsOf(r) == IncludeItems(req[r])

\* app.get("/devis"), up to the await
GetDevis(r) ==
  /\ pc[r] = "received"
  /\ req[r].route = "list"
  /\ LET rq == req[r]
         ok == verifyProxyReq(secret, rq)
         customerParam == QueryGet(rq.params, CUSTOMER_ID)
     IN  /\ verified' = [verified EXCEPT ![r] = ok]
         /\ IF ~ok THEN Respond(r, InvalidSignature) /\ UNCHANGED calls
            ELSE IF CustomerIdCheck(customerParam) = "missing"
              THEN Respond(r, MissingCustomerId) /\ UNCHANGED calls
            ELSE IF CustomerIdCheck(customerParam) = "bad"
              THEN Respond(r, BadCustomerId) /\ UNCHANGED calls
            ELSE IF AdminEnvMissing(adminEnv)
              THEN Respond(r, DevisCatch(Threw(MSG_ENV))) /\ UNCHANGED calls
            ELSE Fetch(r, DevisCall(rq))
  /\ UNCHANGED <<secret, adminEnv, req, reply>>

\* Mutant: a failed upstream call is tried once more.
GetDevisResumeRetry(r, rep) ==
  /\ pc[r] = "awaiting"
  /\ req[r].route = "list"
  /\ reply' = [reply EXCEPT ![r] = rep]
  /\ IF adminGraphQL(rep).threw /\ Len(calls[r]) < 2
     THEN Fetch(r, DevisCall(req[r]))
     ELSE Respond(r, DevisAfter(includeItemsOf(r), adminGraphQL(rep))) /\ UNCHANGED calls
  /\ UNCHANGED <<secret, adminEnv, req, verified>>

\* app.get("/devis"), from the settled fetch to the response
GetDevisResume(r, rep) ==
  /\ pc[r] = "awaiting"
  /\ req[r].route = "list"
  /\ reply' = [reply EXCEPT ![r] = rep]
  /\ Respond(r, DevisAfter(includeItemsOf(r), adminGraphQL(rep)))
  /\ UNCHANGED <<secret, adminEnv, req, verified, calls>>

\* Mutant: the route calls upstream without looking at verifyProxy's answer.
GetDevisIdUnverified(r) ==
  /\ pc[r] = "received"
  /\ req[r].route = "detail"
  /\ verified' = [verified EXCEPT ![r] = verifyProxyReq(secret, req[r])]
  /\ IF AdminEnvMissing(adminEnv)
     THEN Respond(r, DevisIdCatch(Threw(MSG_ENV))) /\ UNCHANGED calls
     ELSE Fetch(r, DevisIdCall(req[r]))
  /\ UNCHANGED <<secret, adminEnv, req, reply>>

\* app.get("/devis/:id"), up to the await
GetDevisId(r) ==
  /\ pc[r] = "received"
  /\ req[r].route = "detail"
  /\ LET rq == req[r]
         ok == verifyProxyReq(secret, rq)
     IN  /\ verified' = [verified EXCEPT ![r] = ok]
         /\ IF ~ok THEN Respond(r, InvalidSignature) /\ UNCHANGED calls
            ELSE IF AdminEnvMissing(adminEnv)
              THEN Respond(r, DevisIdCatch(Threw(MSG_ENV))) /\ UNCHANGED calls
            ELSE Fetch(r, DevisIdCall(rq))
  /\ UNCHANGED <<secret, adminEnv, req, reply>>

\* app.get("/devis/:id"), from the settled fetch to the response
GetDevisIdResume(r, rep) ==
  /\ pc[r] = "awaiting"
  /\ req[r].route = "detail"
  /\ reply' = [reply EXCEPT ![r] = rep]
  /\ Respond(r, DevisIdAfter(includeItemsOf(r), adminGraphQL(rep)))
  /\ UNCHANGED <<secret, adminEnv, req, verified, calls>>

----------------------------------------------------------------------------
(* The environment: configurations, requests and upstream replies *)

\* the secret shared with the platform, and a key that is not the secret
K == <<"k">>
WrongKey == <<"z">>

Secrets == {Undefined, <<>>, K}

\* the parameters that are present, in the order of the query string
Present(params) == SelectSeq(params, LAMBDA p : p[2] # Undefined)

Reverse(s) == [i \in 1..Len(s) |-> s[Len(s) + 1 - i]]

\* the orderings of `rest` by ascending key
SortedByKey(t) == \A i, j \in 1..Len(t) : i < j => ~StrLess(t[j][1], t[i][1])
KeyOrderings(rest) ==
  { t \in [1..Len(rest) -> {rest[i] : i \in 1..Len(rest)}] :
      /\ \A i \in 1..Len(rest) : \E j \in 1..Len(rest) : t[j] = rest[i]
      /\ SortedByKey(t) }

\* what the platform signs in the legacy scheme: key=value of every parameter
\* but `signature`, in key order, with nothing between
LegacyMessages(rest) ==
  { Concat([i \in 1..Len(t) |-> t[i][1] \o <<"=">> \o t[i][2]]) : t \in KeyOrderings(rest) }
PlatformMessage(rest) == CHOOSE m \in LegacyMessages(rest) : TRUE

\* what the platform signs when the proxy is mounted under /apps
MountedUrl(url) ==
  IF url # <<>> /\ Head(url) = "/" THEN APPS \o url ELSE APPS \o <<"/">> \o url

\* the legacy signature a client may send for the parameters `rest`
LegacyValue(label, rest) ==
  CASE label = "none" -> Undefined
    [] label = "empty" -> <<>>
    [] label = "junk" -> <<"x">>
    [] label = "valid" -> hmacHex(K, PlatformMessage(rest))
    [] label = "emptykey" -> hmacHex(<<>>, PlatformMessage(rest))
    [] label = "wrongkey" -> hmacHex(WrongKey, PlatformMessage(rest))
    [] label = "urlorder" -> hmacHex(K, Concat([i \in 1..Len(rest) |-> PairText(rest[i])]))
    [] label = "amp" -> hmacHex(K, Join([i \in 1..Len(rest) |-> PairText(rest[i])], <<"&">>))
    [] label = "base64" -> hmacBase64(K, PlatformMessage(rest))

\* the header signature a client may send for the request target `url`
HeaderValue(label, url) ==
  CASE label = "none" -> Undefined
    [] label = "empty" -> <<>>
    [] label = "junk" -> <<"x">>
    [] label = "raw1" -> hmacBase64(K, url)
    [] label = "raw2" -> hmacBase64(K, MountedUrl(url))
    [] label = "emptykey" -> hmacBase64(<<>>, url)
    [] label = "wrongkey" -> hmacBase64(WrongKey, url)
    [] label = "hex" -> hmacHex(K, url)
    [] label = "appsapps" -> hmacBase64(K, APPS \o MountedUrl(url))
    [] label = "appsnoslash" -> hmacBase64(K, APPS \o url)

\* the request with target and parameters of `base`, signed as the labels say
Signed(base, legacy, l1, l2) ==
  LET sig == LegacyValue(legacy, base.params)
      params == IF sig = Undefined THEN base.params
                ELSE Append(base.params, <<SIGNATURE, sig>>)
      unsigned == [route |-> base.route, form |-> base.form, id |-> base.id,
                   params |-> params, h1 |-> Undefined, h2 |-> Undefined]
  IN  [unsigned EXCEPT !.h1 = HeaderValue(l1, OriginalUrl(unsigned)),
                       !.h2 = HeaderValue(l2, OriginalUrl(unsigned))]

ListBase(form, cid, after, include, reversed) ==
  LET ps == Present(<<<<CUSTOMER_ID, cid>>, <<AFTER, after>>, <<INCLUDE, include>>>>)
  IN  [route |-> "list", form |-> form, id |-> <<>>,
       params |-> IF reversed THEN Reverse(ps) ELSE ps]

DetailBase(form, id, include) ==
  [route |-> "detail", form |-> form, id |-> id,
   params |-> Present(<<<<INCLUDE, include>>>>)]

OriginForm == <<>>
AbsoluteForm == <<"h", "t", "t", "p", ":", "/", "/", "s">>

\* "gid://s/C/"
GID_C == GIDSCHEME \o <<"s", "/", "C", "/">>

Ids ==
  { <<"7">>, <<"4", "2">>, <<"0">>,
    GID_C \o <<"7">>, GID_C \o <<"4", "2">>,
    GID_C \o <<"x", "7">>, GID_C, GIDSCHEME \o <<"7">>,
    <<"s", "/", "C", "/", "7">>, <<"h", "t", "t", "p", ":", "/", "/", "s", "/", "7">>,
    <<"x">>, <<"7", "x">>, <<"x", "7">> }

IncludeValues == {Undefined, ITEMS, <<"I", "T", "E", "M", "S">>, <<"x">>}

\* requests of the handler specification: every identifier, few signatures
HandlerSignatures ==
  { <<"none", "raw1", "none">>, <<"valid", "none", "none">>,
    <<"none", "none", "none">>, <<"none", "junk", "none">> }

HandlerRequests ==
  { Signed(ListBase(OriginForm, cid, after, include, FALSE), sg[1], sg[2], sg[3]) :
      cid \in Ids \cup {Undefined, <<>>}, after \in {Undefined, <<"c">>},
      include \in IncludeValues, sg \in HandlerSignatures }
  \cup
  { Signed(DetailBase(OriginForm, id, include), sg[1], sg[2], sg[3]) :
      id \in Ids, include \in IncludeValues, sg \in HandlerSignatures }

\* requests of the verifier specification: every signature, few identifiers
LegacyLabels ==
  {"none", "empty", "junk", "valid", "emptykey", "wrongkey", "urlorder", "amp", "base64"}
Header1Labels ==
  {"none", "empty", "junk", "raw1", "raw2", "emptykey", "hex", "appsapps", "appsnoslash"}
Header2Labels == {"none", "junk", "raw1", "raw2", "emptykey"}

VerifyBases ==
  { ListBase(form, cid, after, Undefined, reversed) :
      form \in {OriginForm, AbsoluteForm}, cid \in {Undefined, <<"7">>},
      after \in {Undefined, <<"c">>}, reversed \in BOOLEAN }
  \cup { DetailBase(form, <<"7">>, Undefined) : form \in {OriginForm, AbsoluteForm} }

VerifyRequests ==
  { Signed(base, lg, l1, l2) :
      base \in VerifyBases, lg \in LegacyLabels, l1 \in Header1Labels, l2 \in Header2Labels }

\* upstream draft orders
NodeFull ==
  [t |-> "obj", id |-> JStr("gid://shopify/DraftOrder/7"), legacyResourceId |-> JStr("7"),
   name |-> JStr("#D7"), createdAt |-> JStr("2024-01-01T00:00:00Z"),
   status |-> JStr("OPEN"), invoiceUrl |-> JStr("https://s/invoices/7"),
   totalPriceSet |-> [t |-> "obj", presentmentMoney |->
                        [t |-> "obj", amount |-> JStr("10.00"), currencyCode |-> JStr("USD")]],
   lineItems |-> [t |-> "obj", edges |-> JArr(<<
       [t |-> "obj", node |-> [t |-> "obj", title |-> JStr("Desk"), quantity |-> JNum(2),
                               variantTitle |-> JNull]],
       [t |-> "obj", node |-> [t |-> "obj", title |-> JStr("Lamp"), quantity |-> JNum(1),
                               variantTitle |-> JStr("Red")]]>>)]]

NodeBare ==
  [t |-> "obj", id |-> JStr("gid://shopify/DraftOrder/8"), name |-> JStr("#D8"),
   createdAt |-> JStr("2024-02-02T00:00:00Z"), status |-> JStr("COMPLETED"),
   invoiceUrl |-> JNull, totalPriceSet |-> JNull]

PageInfo ==
  [t |-> "obj", hasNextPage |-> JStr("true"), hasPreviousPage |-> JStr("false"),
   startCursor |-> JStr("a"), endCursor |-> JStr("b")]

Edge(node) == [t |-> "obj", cursor |-> JStr("c"), node |-> node]

DataValues ==
  { JNull,
    [t |-> "obj", draftOrders |-> JNull],
    [t |-> "obj", draftOrders |-> [t |-> "obj", edges |-> JNull, pageInfo |-> JNull]],
    [t |-> "obj", draftOrders |-> [t |-> "obj", edges |-> JArr(<<>>), pageInfo |-> PageInfo]],
    [t |-> "obj", draftOrders |->
       [t |-> "obj", edges |-> JArr(<<Edge(NodeFull), Edge(NodeBare)>>), pageInfo |-> PageInfo]],
    [t |-> "obj", draftOrders |->
       [t |-> "obj", edges |-> JArr(<<Edge(NodeFull), Edge(JNull)>>), pageInfo |-> PageInfo]],
    [t |-> "obj", draftOrder |-> JNull],
    [t |-> "obj", draftOrder |-> NodeFull],
    [t |-> "obj", draftOrder |-> NodeBare] }

ErrorsValues ==
  { JUndef, JNull, JArr(<<>>), JArr(<<<<"T", "h", "r", "o", "t", "t", "l", "e", "d">>>>),
    JArr(<<<<"u", "p", "s", "t", "r", "e", "a", "m", " ">> \o HTTP_404>>) }

TextBody(chars) == [t |-> "text", chars |-> chars]
JsonBody(errors, data) ==
  IF errors = JUndef THEN [t |-> "obj", data |-> data]
  ELSE [t |-> "obj", errors |-> errors, data |-> data]

HttpReply(status, body) == [kind |-> "http", status |-> status, body |-> body]

Replies ==
  { [kind |-> "reject", status |-> 0, body |-> JUndef] }
  \cup { HttpReply(200, JsonBody(e, d)) : e \in ErrorsValues, d \in DataValues }
  \cup { HttpReply(200, TextBody(<<"<", "h", "t", "m", "l", ">">>)),
         HttpReply(201, JsonBody(JUndef, [t |-> "obj", draftOrder |-> NodeFull])),
         HttpReply(404, TextBody(<<"N", "o", "t", " ", "F", "o", "u", "n", "d">>)),
         HttpReply(404, TextBody(<<>>)),
         HttpReply(500, TextBody(<<"o", "o", "p", "s">>)),
         HttpReply(500, TextBody(<<"g", "o", "t", " ">> \o HTTP_404)),
         HttpReply(502, TextBody(HTTP_404)),
         HttpReply(401, JsonBody(JArr(<<<<"b", "a", "d", " ", "t", "o", "k", "e", "n">>>>), JUndef)),
         HttpReply(302, TextBody(<<>>)) }

----------------------------------------------------------------------------
(* Specifications *)

InitOver(R, secrets, envs) ==
  /\ secret \in secrets
  /\ adminEnv \in envs
  /\ req = [r \in R |-> NoRequest]
  /\ pc = [r \in R |-> "idle"]
  /\ verified = [r \in R |-> FALSE]
  /\ calls = [r \in R |-> <<>>]
  /\ reply = [r \in R |-> NoReply]
  /\ resp = [r \in R |-> NoResponse]
  /\ nresp = [r \in R |-> 0]

\* one request, every identifier and every upstream reply
Init == InitOver({1}, Secrets, BOOLEAN)

Next ==
  \/ \E r \in DOMAIN pc, rq \in HandlerRequests : Arrive(r, rq)
  \/ \E r \in DOMAIN pc : GetDevis(r)
  \/ \E r \in DOMAIN pc, rep \in Replies : GetDevisResume(r, rep)
  \/ \E r \in DOMAIN pc : GetDevisId(r)
  \/ \E r \in DOMAIN pc, rep \in Replies : GetDevisIdResume(r, rep)

Spec == Init /\ [][Next]_vars

\* one request, every signature
InitVerify == InitOver({1}, Secrets, {TRUE})

VerifyReplies ==
  { HttpReply(200, JsonBody(JUndef, [t |-> "obj", draftOrder |-> NodeFull])),
    HttpReply(404, TextBody(<<>>)) }

NextVerify ==
  \/ \E r \in DOMAIN pc, rq \in VerifyRequests : Arrive(r, rq)
  \/ \E r \in DOMAIN pc : GetDevis(r)
  \/ \E r \in DOMAIN pc, rep \in VerifyReplies : GetDevisResume(r, rep)
  \/ \E r \in DOMAIN pc : GetDevisId(r)
  \/ \E r \in DOMAIN pc, rep \in VerifyReplies : GetDevisIdResume(r, rep)

SpecVerify == InitVerify /\ [][NextVerify]_vars

\* several requests in flight at once
NReq == 2

InitConc == InitOver(1..NReq, {K}, {TRUE})

ConcRequests ==
  { Signed(ListBase(OriginForm, <<"7">>, Undefined, ITEMS, FALSE), "none", "raw1", "none"),
    Signed(ListBase(OriginForm, <<"7">>, Undefined, Undefined, FALSE), "valid", "none", "none"),
    Signed(ListBase(OriginForm, <<"x">>, Undefined, Undefined, FALSE), "none", "raw2", "none"),
    Signed(DetailBase(OriginForm, <<"7">>, ITEMS), "none", "raw1", "none"),
    Signed(DetailBase(OriginForm, <<"7">>, Undefined), "none", "junk", "none"),
    Signed(DetailBase(OriginForm, GID_C \o <<"7">>, Undefined), "none", "none", "raw1") }

ConcReplies ==
  { HttpReply(200, JsonBody(JUndef, [t |-> "obj", draftOrder |-> NodeFull])),
    HttpReply(200, JsonBody(JUndef, [t |-> "obj", draftOrders |->
       [t |-> "obj", edges |-> JArr(<<Edge(NodeFull), Edge(NodeBare)>>), pageInfo |-> PageInfo]])),
    HttpReply(200, JsonBody(JArr(<<<<"n", "o">>>>), JNull)),
    HttpReply(404, TextBody(<<>>)),
    [kind |-> "reject", status |-> 0, body |-> JUndef] }

NextConc ==
  \/ \E r \in DOMAIN pc, rq \in ConcRequests : Arrive(r, rq)
  \/ \E r \in DOMAIN pc : GetDevis(r)
  \/ \E r \in DOMAIN pc, rep \in ConcReplies : GetDevisResume(r, rep)
  \/ \E r \in DOMAIN pc : GetDevisId(r)
  \/ \E r \in DOMAIN pc, rep \in ConcReplies : GetDevisIdResume(r, rep)

SpecConc == InitConc /\ [][NextConc]_vars

----------------------------------------------------------------------------
(* Claims *)

\* the handler of request r has run up to its first response or its await
Started(r) == pc[r] \in {"awaiting", "done"}

ErrorBody(code) == [t |-> "obj", error |-> JStr(code)]

\* C1: on both routes, a request that verifyProxy rejects is answered with
\* HTTP 401 {error: "invalid_signature"} and no upstream call is ever issued
\* for it, whatever its other parameters.
C1_RejectedIs401WithoutCall ==
  \A r \in DOMAIN pc :
    (Started(r) /\ ~verifyProxyReq(secret, req[r])) =>
      /\ pc[r] = "done"
      /\ resp[r].status = 401
      /\ resp[r].body = ErrorBody("invalid_signature")
      /\ calls[r] = <<>>
      /\ reply[r] = NoReply

\* a detail request with a well-formed id and a junk header, on a server that
\* has its secret, was answered 401
C1_Witness ==
  \E r \in DOMAIN pc :
    /\ pc[r] = "done" /\ req[r].route = "detail" /\ req[r].id = <<"7">>
    /\ secret = K /\ adminEnv /\ req[r].h1 = <<"x">>
    /\ resp[r].status = 401 /\ calls[r] = <<>>

\* C4: GET /devis with an accepted signature and no customer_id parameter is
\* answered 400 {error: "missing customer_id"} and no upstream call is issued.
C4_MissingCustomerIdIs400BeforeCall ==
  \A r \in DOMAIN pc :
    (/\ Started(r) /\ req[r].route = "list"
     /\ verifyProxyReq(secret, req[r])
     /\ QueryGet(req[r].params, CUSTOMER_ID) = Undefined) =>
      /\ pc[r] = "done"
      /\ resp[r].status = 400
      /\ resp[r].body = ErrorBody("missing customer_id")
      /\ calls[r] = <<>>
      /\ reply[r] = NoReply

C4_Witness ==
  \E r \in DOMAIN pc :
    /\ pc[r] = "done" /\ req[r].route = "list" /\ adminEnv
    /\ verifyProxyReq(secret, req[r])
    /\ QueryGet(req[r].params, CUSTOMER_ID) = Undefined
    /\ resp[r].status = 400 /\ calls[r] = <<>>

\* the identifier is a bare numeral or ends in a numeral after its last "/"
EndsInNumeral(id) == AllDigits(id) \/ AllDigits(LastSegment(id))

\* the identifier is a bare numeral or a gid:// handle ending in a numeral
NumeralOrGid(id) ==
  AllDigits(id) \/ (StartsWith(id, GIDSCHEME) /\ AllDigits(LastSegment(id)))

\* request r is a GET /devis with an accepted signature whose handler has
\* run, on a server with its Admin API settings
ListAccepted(r) ==
  /\ Started(r) /\ req[r].route = "list" /\ adminEnv
  /\ verifyProxyReq(secret, req[r])

\* the one upstream query of request r filters by customer_id:<numeral>
QueriedFor(r, numeral) ==
  /\ Len(calls[r]) = 1
  /\ calls[r][1].op = "ListDraftOrders"
  /\ calls[r][1].variables.q = CUSTOMER_ID \o <<":">> \o numeral

BadCustomerIdAnswer(r) ==
  /\ pc[r] = "done" /\ resp[r].status = 400
  /\ resp[r].body = ErrorBody("bad customer_id") /\ calls[r] = <<>>

\* C5 as stated: with an accepted signature and a customer_id present (and
\* not empty), the answer is 400 {error: "bad customer_id"} exactly when the identifier is
\* neither a bare numeral nor ends in a numeral after its last "/"; every
\* other identifier leads to an upstream query for customer_id:<numeral>.
C5_Original ==
  \A r \in DOMAIN pc :
    LET cid == QueryGet(req[r].params, CUSTOMER_ID)
    IN  (ListAccepted(r) /\ Truthy(cid)) =>
          IF EndsInNumeral(cid)
          THEN QueriedFor(r, LastSegment(cid))
          ELSE BadCustomerIdAnswer(r)

\* C5 as amended: the answer is 400 {error: "bad customer_id"} exactly when
\* the identifier is non-empty and is neither a bare numeral nor a string
\* starting with "gid://" whose part after the last "/" is a numeral; the
\* empty identifier is answered 400 {error: "missing customer_id"}; every
\* bare numeral and every gid:// handle ending in a numeral passes validation
\* and, the Admin API settings being there, leads to one upstream query
\* filtered by customer_id:<that numeral>.
C5_BadCustomerIdUnlessNumeralOrGid ==
  \A r \in DOMAIN pc :
    LET cid == QueryGet(req[r].params, CUSTOMER_ID)
    IN  (/\ Started(r) /\ req[r].route = "list"
         /\ verifyProxyReq(secret, req[r]) /\ cid # Undefined) =>
          IF NumeralOrGid(cid)
          THEN /\ resp[r].status # 400
               /\ adminEnv => QueriedFor(r, LastSegment(cid))
               /\ ~adminEnv => calls[r] = <<>>
          ELSE IF cid = <<>>
          THEN /\ pc[r] = "done" /\ resp[r].status = 400
               /\ resp[r].body = ErrorBody("missing customer_id") /\ calls[r] = <<>>
          ELSE BadCustomerIdAnswer(r)

\* an identifier ending in a numeral after its last "/", but no gid:// handle,
\* was answered bad customer_id and no upstream call was made
C5_Witness ==
  \E r \in DOMAIN pc :
    /\ ListAccepted(r) /\ pc[r] = "done"
    /\ QueryGet(req[r].params, CUSTOMER_ID) = <<"s", "/", "C", "/", "7">>
    /\ BadCustomerIdAnswer(r)

\* the upstream call failed: a status outside 200..299, or a 2xx reply whose
\* errors array is not empty
UpstreamFailure(rep) ==
  /\ rep.kind = "http"
  /\ \/ rep.status < 200
     \/ rep.status > 299
     \/ /\ rep.body.t = "obj"
        /\ Field(rep.body, "errors").t = "arr"
        /\ Len(Field(rep.body, "errors").items) >= 1

\* C6 as stated: on GET /devis/:id a failed upstream call is answered 404
\* {error: "not_found"} when the upstream status is 404 and 500
\* {error: "server_error"} otherwise, whatever the upstream body says.
C6_Original ==
  \A r \in DOMAIN pc :
    (/\ pc[r] = "done" /\ req[r].route = "detail"
     /\ reply[r] # NoReply /\ UpstreamFailure(reply[r])) =>
      IF reply[r].status = 404
      THEN resp[r].status = 404 /\ resp[r].body = ErrorBody("not_found")
      ELSE resp[r].status = 500 /\ resp[r].body = ErrorBody("server_error")

\* the reply is an HTTP response whose body, when the status is 2xx, is JSON
\* with a node in every edge
WellFormed(rep) ==
  /\ rep.kind = "http"
  /\ rep.status \in 200..299 =>
       /\ rep.body.t = "obj"
       /\ LET edges == EdgesOrEmpty(Field(Field(Field(rep.body, "data"), "draftOrders"), "edges"))
          IN  \A i \in 1..Len(edges) : ~IsNullish(Field(edges[i], "node"))

\* C7 as stated: on GET /devis, once the upstream has replied, the answer is
\* 500 {error: "server_error"} exactly when the reply has a status outside
\* 200..299 or is a 2xx reply with a non-empty errors array; a 2xx reply whose
\* errors field is absent or empty is answered 200 {quotes, pageInfo}; the
\* 500 carries only the generic code.
C7_Original ==
  \A r \in DOMAIN pc :
    (/\ pc[r] = "done" /\ req[r].route = "list"
     /\ reply[r] # NoReply /\ WellFormed(reply[r])) =>
      IF UpstreamFailure(reply[r])
      THEN /\ resp[r].status = 500
           /\ resp[r].body = ErrorBody("server_error")
      ELSE /\ resp[r].status = 200
           /\ DOMAIN resp[r].body = {"t", "quotes", "pageInfo"}

\* C8: for every request, at most one upstream call is issued and exactly
\* one response is written; a failed upstream call is followed by the
\* response, not by another call; once the response is written, no call and
\* no response follows for that request.
C8_OneCallOneResponse ==
  /\ [](\A r \in DOMAIN pc :
          /\ Len(calls[r]) <= 1
          /\ nresp[r] = (IF pc[r] = "done" THEN 1 ELSE 0)
          /\ reply[r] # NoReply => (pc[r] = "done" /\ Len(calls[r]) = 1))
  /\ [][\A r \in DOMAIN pc :
          pc[r] = "done" =>
            /\ pc'[r] = "done" /\ calls'[r] = calls[r]
            /\ resp'[r] = resp[r] /\ nresp'[r] = nresp[r]]_vars

\* a request whose upstream call failed has its one response and one call
C8_Witness ==
  \E r \in DOMAIN pc :
    /\ pc[r] = "done" /\ reply[r] # NoReply /\ UpstreamFailure(reply[r])
    /\ reply[r].status = 500
    /\ Len(calls[r]) = 1 /\ nresp[r] = 1 /\ resp[r].status = 500

\* a header or parameter that is there and not empty
NonEmpty(v) == v # Undefined /\ v # <<>>

\* h is the base64 HMAC, under the configured secret, of the request target
\* of r as received or as mounted under /apps
MatchesUrl(h, r) ==
  \/ h = hmacBase64(secret, OriginalUrl(req[r]))
  \/ h = hmacBase64(secret, MountedUrl(OriginalUrl(req[r])))

\* the legacy `signature` parameter of r is the hex HMAC of its other
\* parameters, key=value in key order
LegacyMatches(r) ==
  /\ NonEmpty(QueryGet(req[r].params, SIGNATURE))
  /\ \E m \in LegacyMessages(SelectSeq(req[r].params, LAMBDA p : p[1] # SIGNATURE)) :
       QueryGet(req[r].params, SIGNATURE) = hmacHex(secret, m)

\* C2: with the shared secret unset or empty, verifyProxy returns false for
\* every request, also for one signed with the empty key.
C2_NoSecretRejectsAll ==
  \A r \in DOMAIN pc :
    (Started(r) /\ secret \in {Undefined, <<>>}) =>
      /\ ~verified[r]
      /\ resp[r].status = 401
      /\ calls[r] = <<>>

\* a request whose header is the HMAC of its target under the empty key was
\* rejected by a server without secret
C2_Witness ==
  \E r \in DOMAIN pc :
    /\ Started(r) /\ secret \in {Undefined, <<>>}
    /\ req[r].h1 = hmacBase64(<<>>, OriginalUrl(req[r]))
    /\ ~verified[r]

\* C3: with a non-empty secret, verifyProxy returns true if and only if the
\* presented header signature is the base64 HMAC of originalUrl, or of
\* originalUrl under /apps (one "/" put in when originalUrl has none in
\* front), or the legacy signature is the hex HMAC of the other parameters,
\* key=value in key order without separator.
C3_AcceptsIffOneOfThree ==
  \A r \in DOMAIN pc :
    (Started(r) /\ NonEmpty(secret)) =>
      LET presented == IF NonEmpty(req[r].h1) THEN req[r].h1 ELSE req[r].h2
      IN  verified[r] <=>
            \/ NonEmpty(presented) /\ MatchesUrl(presented, r)
            \/ LegacyMatches(r)

\* a request whose parameters come in another order than the key order, with
\* no header and the platform's legacy signature, was accepted
C3_Witness ==
  \E r \in DOMAIN pc :
    /\ Started(r) /\ secret = K /\ verified[r]
    /\ req[r].h1 = Undefined /\ req[r].h2 = Undefined
    /\ Len(req[r].params) = 3
    /\ req[r].params[1][1] = CUSTOMER_ID /\ req[r].params[2][1] = AFTER
    /\ LegacyMatches(r)

\* C10: a non-empty x-shopify-proxy-signature is the only header compared;
\* x-shopify-hmac-sha256 counts only when the former is absent or empty.  A
\* request with an invalid proxy-signature and a valid hmac-sha256 passes only
\* by its legacy signature.
C10_ProxySignatureHeaderFirst ==
  \A r \in DOMAIN pc :
    (Started(r) /\ NonEmpty(secret)) =>
      IF NonEmpty(req[r].h1)
      THEN verified[r] <=> (MatchesUrl(req[r].h1, r) \/ LegacyMatches(r))
      ELSE verified[r] <=>
             ((NonEmpty(req[r].h2) /\ MatchesUrl(req[r].h2, r)) \/ LegacyMatches(r))

\* an invalid proxy-signature with a valid hmac-sha256 and no legacy
\* signature was rejected
C10_Witness ==
  \E r \in DOMAIN pc :
    /\ Started(r) /\ secret = K
    /\ req[r].h1 = <<"x">>
    /\ MatchesUrl(req[r].h2, r)
    /\ QueryGet(req[r].params, SIGNATURE) = Undefined
    /\ ~verified[r] /\ resp[r].status = 401

\* the response of a request, from its own content, the configuration and
\* its own upstream reply
ResponseOf(sec, env, rq, rep) ==
  IF ~verifyProxyReq(sec, rq) THEN ErrorResponse(401, "invalid_signature")
  ELSE IF rq.route = "list" /\ ~Truthy(QueryGet(rq.params, CUSTOMER_ID))
    THEN ErrorResponse(400, "missing customer_id")
  ELSE IF rq.route = "list" /\ ~Truthy(gidToLegacyId(QueryGet(rq.params, CUSTOMER_ID)))
    THEN ErrorResponse(400, "bad customer_id")
  ELSE IF ~env THEN ErrorResponse(500, "server_error")
  ELSE IF rq.route = "list" THEN DevisAfter(IncludeItems(rq), adminGraphQL(rep))
  ELSE DevisIdAfter(IncludeItems(rq), adminGraphQL(rep))

\* C9: with several requests in flight, the response of each is a function
\* of its own request, the configuration and its own upstream reply, and a
\* step of one request leaves every other request's state as it was.
C9_RequestsIndependent ==
  /\ [](\A r \in DOMAIN pc :
          /\ pc[r] = "done" => resp[r] = ResponseOf(secret, adminEnv, req[r], reply[r])
          /\ pc[r] # "done" => resp[r] = NoResponse /\ reply[r] = NoReply)
  /\ [][\A r \in DOMAIN pc :
          pc'[r] = pc[r] =>
            /\ req'[r] = req[r] /\ verified'[r] = verified[r] /\ calls'[r] = calls[r]
            /\ reply'[r] = reply[r] /\ resp'[r] = resp[r] /\ nresp'[r] = nresp[r]]_vars

\* request 2, which asked for no line items, was answered 200 while request
\* 1, which asked for them, was still suspended on its upstream call
C9_Witness ==
  /\ 1 \in DOMAIN pc /\ 2 \in DOMAIN pc
  /\ pc[1] = "awaiting" /\ IncludeItems(req[1])
  /\ pc[2] = "done" /\ ~IncludeItems(req[2]) /\ reply[2] # NoReply
  /\ resp[2].status = 200

====
